---- MODULE Spec2Model ----
(***************************************************************************)
(* The images table of the hair-similarity backend, its two write paths    *)
(* (app/image_processing.py and the older app/app.py) and its similarity   *)
(* queries (app/database.py, app/app.py, app/image_display_manager.py);    *)
(* the lazy database connection (app/db.py); the creators table with the   *)
(* signup endpoint and the Instagram ingestion (app/routers/creators.py);  *)
(* the refresh job (scripts/refresh_creator_images.py) and the display     *)
(* endpoints (app/routers/display.py).                                     *)
(*                                                                         *)
(* The database.  has_vector is the answer of the pg_extension probe,      *)
(* embedding_column the type the embedding column was created with.  A     *)
(* query without ORDER BY, and rows that tie in an ORDER BY, come back in  *)
(* an order the database chooses on every call.  A call ends with a value  *)
(* or with an exception (error).                                           *)
(*                                                                         *)
(* Numbers.  The program works on float32 vectors.  The model uses        *)
(* vectors with integer components in units of 1/Unit, drawn from a set    *)
(* on which norms, normalisation and dot products are exact, and scores    *)
(* in units of 1/Scale.  <<3, 4>> stands for (0.6, 0.8), <<6, 8>> for the   *)
(* un-normalised (1.2, 1.6), a score of 60 for 0.60.  Rounding of float32  *)
(* arithmetic is not modelled.                                             *)
(* Values that the program treats as opaque (usernames, media ids, urls,   *)
(* captions, uuids) are positive integers; NULL is SQL NULL / Python None. *)
(***************************************************************************)
EXTENDS Integers, Sequences, FiniteSets

VARIABLES images, has_vector, embedding_column, calls, last,
          connection, vector_registered, server_connections, threads,
          creators, requests, scheduled, job

vars == <<images, has_vector, embedding_column, calls, last,
          connection, vector_registered, server_connections, threads,
          creators, requests, scheduled, job>>

\* The state outside the images table and its capability probe: the lazy
\* connection of app/db.py and the threads using it, the creators table, the
\* PUT /api/creators/me requests in flight with the ingestions they
\* scheduled, and the refresh job of scripts/refresh_creator_images.py.
connection_vars == <<connection, vector_registered, server_connections, threads>>
creator_vars == <<creators, requests, scheduled>>
others == <<connection_vars, creator_vars, job>>

\* ------------------------------------------------------------------ bounds
MaxCalls == 3
MaxRows == 2
MaxK == 2
MaxThreads == 2
MaxRetries == 3
MaxConnections == 3
MaxRequests == 2

\* ------------------------------------------------------- values and floats
NULL == 0
NaN == 1000
Unit == 5
Scale == 100

IsNaN(x) == x = NaN

\* Python float comparison: every comparison with nan is False.
FloatLT(a, b) == ~IsNaN(a) /\ ~IsNaN(b) /\ a < b
FloatGE(a, b) == ~IsNaN(a) /\ ~IsNaN(b) /\ a >= b
FloatGT(a, b) == ~IsNaN(a) /\ ~IsNaN(b) /\ a > b

\* PostgreSQL float8 ordering: NaN equals NaN and is greater than any number.
PgLE(a, b) == IsNaN(b) \/ (~IsNaN(a) /\ a <= b)
PgLT(a, b) == ~PgLE(b, a)

RECURSIVE DotUpTo(_, _, _)
DotUpTo(a, b, n) == IF n = 0 THEN 0 ELSE a[n] * b[n] + DotUpTo(a, b, n - 1)

\* np.dot on the integer components (units of 1/Unit^2).
Dot(a, b) == DotUpTo(a, b, Len(a))

ISqrt(n) == CHOOSE r \in 0..n : r * r = n

\* np.linalg.norm, in units of 1/Unit.
Norm(v) == ISqrt(Dot(v, v))

\* embedding_np / query_norm (only called with a non-zero norm).
Normalize(v) == [i \in 1..Len(v) |-> (v[i] * Unit) \div Norm(v)]

\* float(np.dot(embedding_np, emb_np)) of two normalised vectors, in 1/Scale.
DotSimilarity(q, e) == (Scale * Dot(q, e)) \div (Unit * Unit)

\* pgvector  a <=> b : cosine distance 1 - a.b/(|a||b|); 0/0 is NaN.
CosineDistance(a, b) ==
  IF Norm(a) = 0 \/ Norm(b) = 0 THEN NaN
  ELSE Scale - (Scale * Dot(a, b)) \div (Norm(a) * Norm(b))

\* pgvector  a <#> b : negative inner product.
NegInnerProduct(a, b) == 0 - (Scale * Dot(a, b)) \div (Unit * Unit)

\* SQL / Python  1 - x  on floats.
OneMinus(x) == IF IsNaN(x) THEN NaN ELSE Scale - x

\* embedding VECTOR(512): the number of components of a record's vector.
\* The model's vectors have 2 components in place of 512.
Dim == 2

\* ------------------------------------------------------------ input sets
ZeroVector == <<0, 0>>
StoredVectors == {<<0, 0>>, <<5, 0>>, <<3, 4>>, <<6, 8>>}
Queries == {<<0, 0>>, <<10, 0>>, <<-3, -4>>}
Owners == {1, 2}
Sources == {1}
SourceIds == {1}
AtTag(name) == <<"@", name>>
HashTag(name) == <<"#", name>>
HashtagLists == {<<>>, <<HashTag(1), AtTag(2)>>}

\* --------------------------------------------------------------- the store
Row(id, source, source_id, url, hashtags, width, height, embedding, caption, media_id, creator_username, media_type, media_url) ==
  [id |-> id, source |-> source, source_id |-> source_id, url |-> url,
   hashtags |-> hashtags, width |-> width, height |-> height,
   embedding |-> embedding, caption |-> caption, media_id |-> media_id,
   creator_username |-> creator_username, media_type |-> media_type,
   media_url |-> media_url]

\* UNIQUE(source, source_id): two rows conflict when both columns are equal;
\* a NULL source_id is distinct from every value, NULL included.
Conflicts(row, source, source_id) ==
  source_id # NULL /\ row.source = source /\ row.source_id = source_id

ConflictIndex(source, source_id) ==
  {i \in 1..Len(images) : Conflicts(images[i], source, source_id)}

\* insert_image_row: first hashtag starting with '@', when no username given.
RECURSIVE FirstAtTag(_, _)
FirstAtTag(hashtags, i) ==
  IF i > Len(hashtags) THEN NULL
  ELSE IF hashtags[i][1] = "@" THEN hashtags[i][2]
  ELSE FirstAtTag(hashtags, i + 1)

ExtractCreator(creator_username, hashtags) ==
  IF creator_username = NULL /\ Len(hashtags) > 0
  THEN FirstAtTag(hashtags, 1)
  ELSE creator_username

\* ON CONFLICT (source, source_id) DO UPDATE SET ... of image_processing.py
DoUpdate(old, new) ==
  [old EXCEPT !.embedding = new.embedding,
              !.width = new.width,
              !.height = new.height,
              !.caption = new.caption,
              !.media_id = new.media_id,
              !.creator_username = new.creator_username,
              !.media_type = new.media_type,
              !.media_url = new.media_url]

\* ON CONFLICT (source, source_id) DO NOTHING of app.py
DoNothing(old, new) == old

\* ------------------------------------------- list.sort(key=.., reverse=True)
\* CPython's list.sort on fewer than 64 elements, which compares keys with <
\* only: reverse, find the leading run, binary insertion sort, reverse.  The
\* operators work on the sequence ks of precomputed keys and return the
\* positions of the elements in their final order.
Reverse(s) == [i \in 1..Len(s) |-> s[Len(s) + 1 - i]]

RECURSIVE RunEnd(_, _, _, _)
RunEnd(ks, a, i, desc) ==
  IF i > Len(a) THEN Len(a)
  ELSE IF FloatLT(ks[a[i]], ks[a[i - 1]]) = desc THEN RunEnd(ks, a, i + 1, desc)
  ELSE i - 1

CountRun(ks, a) ==
  IF Len(a) <= 1 THEN [n |-> Len(a), desc |-> FALSE]
  ELSE LET desc == FloatLT(ks[a[2]], ks[a[1]])
       IN [n |-> RunEnd(ks, a, 3, desc), desc |-> desc]

RECURSIVE BinarySearch(_, _, _, _, _)
BinarySearch(ks, a, pivot, l, r) ==
  IF l >= r THEN l
  ELSE LET p == l + (r - l) \div 2
       IN IF FloatLT(ks[pivot], ks[a[p + 1]])
          THEN BinarySearch(ks, a, pivot, l, p)
          ELSE BinarySearch(ks, a, pivot, p + 1, r)

MoveTo(a, from, to) ==
  [i \in 1..Len(a) |->
     IF i < to \/ i > from THEN a[i]
     ELSE IF i = to THEN a[from]
     ELSE a[i - 1]]

RECURSIVE BinarySort(_, _, _)
BinarySort(ks, a, start) ==
  IF start > Len(a) THEN a
  ELSE LET l == BinarySearch(ks, a, a[start], 0, start - 1)
       IN BinarySort(ks, MoveTo(a, start, l + 1), start + 1)

PySortOrder(ks) ==
  LET a0 == Reverse([i \in 1..Len(ks) |-> i])
      run == CountRun(ks, a0)
      a1 == IF run.desc
            THEN [i \in 1..Len(a0) |-> IF i <= run.n THEN a0[run.n + 1 - i] ELSE a0[i]]
            ELSE a0
  IN Reverse(BinarySort(ks, a1, run.n + 1))

\* similarities.sort(key=lambda x: x["similarity"], reverse=True)
SortBySimilarity(entries) ==
  LET order == PySortOrder([i \in 1..Len(entries) |-> entries[i].similarity])
  IN [i \in 1..Len(entries) |-> entries[order[i]]]

\* results.sort(key=lambda x: x["similarity_score"], reverse=True)
SortByScore(entries) ==
  LET order == PySortOrder([i \in 1..Len(entries) |-> entries[i].similarity_score])
  IN [i \in 1..Len(entries) |-> entries[order[i]]]

\* seq[:limit], a Python slice: a negative limit counts from the end.
Take(seq, limit) ==
  IF limit >= 0 THEN SubSeq(seq, 1, IF limit < Len(seq) THEN limit ELSE Len(seq))
  ELSE SubSeq(seq, 1, IF Len(seq) + limit > 0 THEN Len(seq) + limit ELSE 0)

\* --------------------------------------------------------------- SQL pieces
\* CASE WHEN media_id IS NOT NULL THEN CONCAT('/api/images/', media_id,
\* '/proxy') ELSE url END
ImageUrl(row) ==
  IF row.media_id # NULL THEN <<"proxy", row.media_id>> ELSE <<"url", row.url>>

\* How a call ends: with a return value (result, error "none") or with an
\* exception that leaves the function (error names it, there is no result).
Returned(strategy, scan, result) ==
  [strategy |-> strategy, scan |-> scan, result |-> result, error |-> "none"]

Raised(strategy, kind) ==
  [strategy |-> strategy, scan |-> <<>>, result |-> <<>>, error |-> kind]

Permutations(S) ==
  {p \in [1..Cardinality(S) -> S] : \A i, j \in 1..Cardinality(S) : i # j => p[i] # p[j]}

\* The orders in which ORDER BY <key> may return the rows at the positions
\* S: ascending by the key, rows with equal keys in any order.
OrderByOutcomes(S, key) ==
  {p \in Permutations(S) : \A i \in 1..(Cardinality(S) - 1) : PgLE(key[p[i]], key[p[i + 1]])}

\* SELECT .. FROM images WHERE .. without ORDER BY: the rows at the
\* positions S come back in an order the database chooses.
FetchOrders(S) == Permutations(S)

\* The threads that use the module-level conn of app/db.py (the worker
\* threads FastAPI runs def endpoints on) and the PUT /api/creators/me
\* requests that can be in flight together.
Threads == 1..MaxThreads
Requests == 1..MaxRequests

\* failure is the exception the last attempt of the call in progress raised.
NoFailure == [kind |-> "none", message |-> ""]

IdleThread ==
  [pc |-> "idle", caller |-> "none", max_retries |-> 0, attempt |-> 0,
   failure |-> NoFailure, opened |-> NULL]

IdleRequest ==
  [pc |-> "idle", user_id |-> NULL, username |-> NULL, is_new_creator |-> FALSE]

IdleJob ==
  [pc |-> "idle", dry_run |-> FALSE, creators |-> <<>>, i |-> 0,
   total_deleted |-> 0, total_added |-> 0, total_skipped |-> 0,
   total_errors |-> 0, failed_creators |-> <<>>]

\* setup_database_schema at startup on a fresh database: the embedding
\* column is VECTOR(512) when the vector extension is there (or could be
\* created) and JSONB otherwise; the tables are empty.  conn is the
\* LazyConnection() made at import: no connection, nothing registered.
Init ==
  /\ images = <<>>
  /\ has_vector \in BOOLEAN
  /\ embedding_column = IF has_vector THEN "vector" ELSE "jsonb"
  /\ calls = 0
  /\ last = [op |-> "none"]
  /\ connection = NULL
  /\ vector_registered = FALSE
  /\ server_connections = <<>>
  /\ threads = [t \in Threads |-> IdleThread]
  /\ creators = <<>>
  /\ requests = [r \in Requests |-> IdleRequest]
  /\ scheduled = <<>>
  /\ job = IdleJob

\* The column type's own check of a value written to embedding.
ColumnRejects(embedding) == embedding_column = "vector" /\ Len(embedding) # Dim

\* app/image_processing.py insert_image_row.  uuid.uuid4() is the fresh id
\* calls + 1; the opaque metadata of one call (url, width, height, caption,
\* media_id, media_type, media_url) is stamped with one value m, so a field
\* tells which call wrote it.  The embedding is stored as given: the function
\* converts it to a float32 list and nothing else.  The three DO $$ blocks
\* only add missing columns.  A None embedding raises before the table is
\* touched and is not among the inputs.  The function checks nothing about
\* the list it passes on: a VECTOR(512) column makes the statement fail for
\* a list of another length, a JSONB column takes any array.
InsertImageRow(source, source_id, m, hashtags, embedding, creator_username) ==
  /\ calls < MaxCalls
  /\ LET owner == ExtractCreator(creator_username, hashtags)
         new == Row(calls + 1, source, source_id, m, hashtags, m, m,
                    embedding, m, m, owner, m, m)
         hit == ConflictIndex(source, source_id)
         rejected == ColumnRejects(embedding)
     IN /\ images' = IF rejected THEN images
                     ELSE IF hit = {} THEN Append(images, new)
                     ELSE [i \in 1..Len(images) |->
                             IF i \in hit THEN DoUpdate(images[i], new)
                             ELSE images[i]]
        /\ last' = [op |-> "insert_image_row", impl |-> "image_processing",
                    source |-> source, source_id |-> source_id, new |-> new,
                    error |-> IF rejected THEN "DatabaseError" ELSE "none"]
  /\ calls' = calls + 1
  /\ UNCHANGED <<has_vector, embedding_column>>
  /\ UNCHANGED others

\* app/app.py insert_image_row: no media_id, creator_username, media_type or
\* media_url column is written.
AppInsertImageRow(source, source_id, m, hashtags, embedding) ==
  /\ calls < MaxCalls
  /\ LET new == Row(calls + 1, source, source_id, m, hashtags, m, m,
                    embedding, m, NULL, NULL, NULL, NULL)
         hit == ConflictIndex(source, source_id)
     IN /\ images' = IF hit = {} THEN Append(images, new)
                     ELSE [i \in 1..Len(images) |->
                             IF i \in hit THEN DoNothing(images[i], new)
                             ELSE images[i]]
        /\ last' = [op |-> "insert_image_row", impl |-> "app",
                    source |-> source, source_id |-> source_id, new |-> new,
                    error |-> "none"]
  /\ calls' = calls + 1
  /\ UNCHANGED <<has_vector, embedding_column>>
  /\ UNCHANGED others

\* The write paths alone, over natural keys that repeat.
NextStore ==
  \/ \E s \in Sources, sid \in SourceIds \cup {NULL}, h \in HashtagLists,
        e \in {<<5, 0>>, <<3, 4>>}, u \in {NULL, 1} :
       InsertImageRow(s, sid, calls + 1, h, e, u)
  \/ \E s \in Sources, sid \in SourceIds \cup {NULL}, h \in HashtagLists,
        e \in {<<5, 0>>, <<3, 4>>} :
       AppInsertImageRow(s, sid, calls + 1, h, e)

SpecStore == Init /\ [][NextStore]_vars

\* insert_image_row called with arrays of any length, on natural keys that
\* repeat.
EmbeddingsOfAnyLength == {<<5, 0>>, <<3, 4>>, <<5>>, <<3, 4, 0>>}

NextIngest ==
  \E sid \in 1..2, e \in EmbeddingsOfAnyLength, u \in {NULL, 1} :
    InsertImageRow(1, sid, calls + 1, <<>>, e, u)

SpecIngest == Init /\ [][NextIngest]_vars

\* ------------------------------------------------- search_similar_images
SearchEntry(row, similarity) ==
  [id |-> row.id, url |-> ImageUrl(row), caption |-> row.caption,
   similarity |-> similarity]

\* WHERE embedding IS NOT NULL (the column is NOT NULL): every position.
SearchEligible == 1..Len(images)

\* The pgvector branch: ORDER BY embedding <=> q LIMIT k, for one order p
\* the database may return.
NativeSearchResult(q, limit, p) ==
  Take([i \in 1..Len(p) |->
          SearchEntry(images[p[i]], OneMinus(CosineDistance(images[p[i]].embedding, q)))],
       limit)

NativeSearchOrders(q) ==
  OrderByOutcomes(SearchEligible,
                  [i \in SearchEligible |-> CosineDistance(images[i].embedding, q)])

\* The fallback branch: the loop over the fetched rows, in the order rows
\* they were fetched in.  A zero-norm row is skipped; np.dot of two arrays
\* of different length raises ValueError, which the loop's except turns
\* into a skip as well.
RECURSIVE ScanSimilarities(_, _, _)
ScanSimilarities(q, rows, similarities) ==
  IF rows = <<>> THEN similarities
  ELSE LET row == images[Head(rows)]
       IN IF Norm(row.embedding) = 0 \/ Len(row.embedding) # Len(q)
          THEN ScanSimilarities(q, Tail(rows), similarities)
          ELSE ScanSimilarities(q, Tail(rows),
                 Append(similarities,
                        SearchEntry(row, DotSimilarity(q, Normalize(row.embedding)))))

\* The fallback branch without its sort: the scanned rows, cut at limit.
BruteForceSearchResult_Unsorted(q, limit, rows) ==
  Take(ScanSimilarities(q, rows, <<>>), limit)

BruteForceSearchResult(q, limit, rows) ==
  Take(SortBySimilarity(ScanSimilarities(q, rows, <<>>)), limit)

\* The statement of the pgvector branch fails as a whole: LIMIT with a
\* negative count is an error, and <=> on two vectors of different
\* dimensions is an error as soon as one row is evaluated.
NativeSearchFails(q, limit) ==
  \/ limit < 0
  \/ \E i \in SearchEligible : Len(images[i].embedding) # Len(q)

\* search_similar_images reading rows[0] of the fetched rows before it
\* builds the list: IndexError when no row comes back.
SearchRuns_FirstRow(hv, embedding, limit) ==
  IF Norm(embedding) = 0
  THEN {Returned("none", <<>>, <<>>)}
  ELSE IF SearchEligible = {}
  THEN {Raised(IF hv THEN "native" ELSE "brute_force", "IndexError")}
  ELSE IF hv
       THEN IF NativeSearchFails(Normalize(embedding), limit)
            THEN {Raised("native", "DatabaseError")}
            ELSE {Returned("native", <<>>,
                           NativeSearchResult(Normalize(embedding), limit, p)) :
                    p \in NativeSearchOrders(Normalize(embedding))}
       ELSE {Returned("brute_force", rows,
                      BruteForceSearchResult(Normalize(embedding), limit, rows)) :
               rows \in FetchOrders(SearchEligible)}

\* Every way search_similar_images can run for (embedding, limit) when the
\* extension probe answers hv: the branch taken, the order the rows were
\* fetched in (fallback branch) and the value returned or the exception.
SearchRuns(hv, embedding, limit) ==
  IF Norm(embedding) = 0
  THEN {Returned("none", <<>>, <<>>)}
  ELSE IF hv
       THEN IF NativeSearchFails(Normalize(embedding), limit)
            THEN {Raised("native", "DatabaseError")}
            ELSE {Returned("native", <<>>,
                           NativeSearchResult(Normalize(embedding), limit, p)) :
                    p \in NativeSearchOrders(Normalize(embedding))}
       ELSE {Returned("brute_force", rows,
                      BruteForceSearchResult(Normalize(embedding), limit, rows)) :
               rows \in FetchOrders(SearchEligible)}

\* Every value search_similar_images can return for (embedding, limit) when
\* the extension probe answers hv.
SearchOutcomes(hv, embedding, limit) ==
  {r.result : r \in {x \in SearchRuns(hv, embedding, limit) : x.error = "none"}}

\* The run on the table as it is: the pgvector operators applied to a
\* JSONB column make the statement raise (operator does not exist).
OnColumn(run) ==
  IF run.strategy = "native" /\ embedding_column = "jsonb"
  THEN Raised("native", "DatabaseError")
  ELSE run

SearchSimilarImages(embedding, limit) ==
  /\ \E r \in SearchRuns(has_vector, embedding, limit) :
       last' = [op |-> "search_similar_images", embedding |-> embedding,
                limit |-> limit, strategy |-> OnColumn(r).strategy,
                scan |-> OnColumn(r).scan, result |-> OnColumn(r).result,
                error |-> OnColumn(r).error]
  /\ UNCHANGED <<images, has_vector, embedding_column, calls>>
  /\ UNCHANGED others

\* ---------------------------------------- search_similar_images_by_creator
CreatorEntry(row, similarity) ==
  [creator_username |-> row.creator_username,
   image |-> [id |-> row.id, media_id |-> row.media_id, url |-> row.url,
              caption |-> row.caption, width |-> row.width,
              height |-> row.height, media_url |-> row.media_url],
   similarity_score |-> similarity]

\* The row filter without "AND creator_username IS NOT NULL".
CreatorEligible_AnyOwner == 1..Len(images)

\* WHERE embedding IS NOT NULL AND creator_username IS NOT NULL
CreatorEligible == {i \in 1..Len(images) : images[i].creator_username # NULL}

\* SELECT DISTINCT ON (creator_username) ... ORDER BY creator_username,
\* embedding <=> q : the first row of each creator in one order the database
\* may produce; rows come back by creator_username ascending.
RECURSIVE DistinctOn(_, _)
DistinctOn(p, i) ==
  IF i > Len(p) THEN <<>>
  ELSE IF i > 1 /\ images[p[i]].creator_username = images[p[i - 1]].creator_username
  THEN DistinctOn(p, i + 1)
  ELSE <<p[i]>> \o DistinctOn(p, i + 1)

CreatorOrders(q) ==
  {p \in Permutations(CreatorEligible) :
     \A i \in 1..(Len(p) - 1) :
        \/ images[p[i]].creator_username < images[p[i + 1]].creator_username
        \/ /\ images[p[i]].creator_username = images[p[i + 1]].creator_username
           /\ PgLE(CosineDistance(images[p[i]].embedding, q),
                   CosineDistance(images[p[i + 1]].embedding, q))}

NativeCreatorResult(q, p) ==
  LET rows == DistinctOn(p, 1)
  IN SortByScore([i \in 1..Len(rows) |->
                    CreatorEntry(images[rows[i]],
                                 OneMinus(CosineDistance(images[rows[i]].embedding, q)))])

\* creator_best, a dict: a sequence of entries in order of first insertion.
BestIndex(creator_best, creator) ==
  {j \in 1..Len(creator_best) : creator_best[j].creator_username = creator}

\* The comparison with >= in place of >.
Exceeds_OrEqual(similarity, best) == FloatGE(similarity, best)

\* similarity > creator_best[creator]["similarity_score"]
Exceeds(similarity, best) == FloatGT(similarity, best)

RECURSIVE ScanCreatorBest(_, _, _)
ScanCreatorBest(q, rows, creator_best) ==
  IF rows = <<>> THEN creator_best
  ELSE LET row == images[Head(rows)]
           similarity == DotSimilarity(q, Normalize(row.embedding))
           at == BestIndex(creator_best, row.creator_username)
       IN IF Norm(row.embedding) = 0 \/ Len(row.embedding) # Len(q)
          THEN ScanCreatorBest(q, Tail(rows), creator_best)
          ELSE IF at = {}
          THEN ScanCreatorBest(q, Tail(rows),
                               Append(creator_best, CreatorEntry(row, similarity)))
          ELSE IF \E j \in at : Exceeds(similarity, creator_best[j].similarity_score)
          THEN ScanCreatorBest(q, Tail(rows),
                 [j \in 1..Len(creator_best) |->
                    IF j \in at THEN CreatorEntry(row, similarity) ELSE creator_best[j]])
          ELSE ScanCreatorBest(q, Tail(rows), creator_best)

\* results = list(creator_best.values()); results.sort(..), for the rows
\* fetched in the order rows.
BruteForceCreatorResult(q, rows) ==
  SortByScore(ScanCreatorBest(q, rows, <<>>))

NativeCreatorFails(q) ==
  \E i \in CreatorEligible : Len(images[i].embedding) # Len(q)

\* Every way search_similar_images_by_creator can run for embedding when
\* the extension probe answers hv.
CreatorRuns(hv, embedding) ==
  IF Norm(embedding) = 0
  THEN {Returned("none", <<>>, <<>>)}
  ELSE IF hv
       THEN IF NativeCreatorFails(Normalize(embedding))
            THEN {Raised("native", "DatabaseError")}
            ELSE {Returned("native", <<>>,
                           NativeCreatorResult(Normalize(embedding), p)) :
                    p \in CreatorOrders(Normalize(embedding))}
       ELSE {Returned("brute_force", rows,
                      BruteForceCreatorResult(Normalize(embedding), rows)) :
               rows \in FetchOrders(CreatorEligible)}

CreatorOutcomes(hv, embedding) ==
  {r.result : r \in {x \in CreatorRuns(hv, embedding) : x.error = "none"}}

SearchSimilarImagesByCreator(embedding) ==
  /\ \E r \in CreatorRuns(has_vector, embedding) :
       last' = [op |-> "search_similar_images_by_creator",
                embedding |-> embedding, limit |-> NULL,
                strategy |-> OnColumn(r).strategy, scan |-> OnColumn(r).scan,
                result |-> OnColumn(r).result, error |-> OnColumn(r).error]
  /\ UNCHANGED <<images, has_vector, embedding_column, calls>>
  /\ UNCHANGED others

\* ------------------------------------------------ app.py /search/upload
\* query_emb = image_to_embedding(img): the CLIP features divided by their
\* norm.  ORDER BY embedding <#> q LIMIT top_k, 1 - (embedding <#> q).
\* The <#> operator exists only with the vector extension; without it the
\* statement raises and no result is returned.
AppSearchEntry(row, similarity) ==
  [id |-> row.id, source |-> row.source, source_id |-> row.source_id,
   url |-> row.url, hashtags |-> row.hashtags, width |-> row.width,
   height |-> row.height, similarity |-> similarity]

AppSearchOrders(q) ==
  OrderByOutcomes(1..Len(images),
                  [i \in 1..Len(images) |-> NegInnerProduct(images[i].embedding, q)])

AppSearchResult(q, top_k, p) ==
  Take([i \in 1..Len(p) |->
          AppSearchEntry(images[p[i]], OneMinus(NegInnerProduct(images[p[i]].embedding, q)))],
       top_k)

AppSearchByUpload(features, top_k) ==
  /\ has_vector
  /\ Norm(features) # 0
  /\ \E p \in AppSearchOrders(Normalize(features)) :
       last' = [op |-> "app_search_by_upload", embedding |-> Normalize(features),
                limit |-> top_k,
                result |-> AppSearchResult(Normalize(features), top_k, p)]
  /\ UNCHANGED <<images, has_vector, embedding_column, calls>>
  /\ UNCHANGED others

\* ------------------------- image_display_manager.get_creator_display_image
\* WHERE EXISTS (SELECT 1 FROM unnest(i.hashtags) h WHERE h = '@' || username)
HasAtTag(row, username) ==
  \E i \in 1..Len(row.hashtags) : row.hashtags[i] = AtTag(username)

DisplayEligible(username) ==
  {i \in 1..Len(images) : HasAtTag(images[i], username)}

DisplayEntry(row, similarity_score) ==
  [id |-> row.id, media_id |-> row.media_id,
   proxy_url |-> <<"proxy", row.media_id>>, original_url |-> row.url,
   caption |-> row.caption, width |-> row.width, height |-> row.height,
   similarity_score |-> similarity_score]

\* The query is divided by its norm unless the norm is 0; then it is used
\* as it is.
DisplayQuery(query_embedding) ==
  IF Norm(query_embedding) = 0 THEN query_embedding ELSE Normalize(query_embedding)

\* The loop over the creator's rows: best is <<>> (best_match None) or the
\* entry of the best row so far, best_similarity starts at -1.
RECURSIVE ScanBestMatch(_, _, _, _)
ScanBestMatch(q, rows, best, best_similarity) ==
  IF rows = <<>> THEN best
  ELSE LET row == images[Head(rows)]
           similarity == DotSimilarity(q, Normalize(row.embedding))
       IN IF Norm(row.embedding) = 0 \/ Len(row.embedding) # Len(q)
          THEN ScanBestMatch(q, Tail(rows), best, best_similarity)
          ELSE IF FloatGT(similarity, best_similarity)
          THEN ScanBestMatch(q, Tail(rows), <<DisplayEntry(row, similarity)>>, similarity)
          ELSE ScanBestMatch(q, Tail(rows), best, best_similarity)

\* ORDER BY i.created_at DESC LIMIT 1: created_at is set when the row is
\* inserted and never updated, so the newest row is the last in the table.
NewestOf(S) == CHOOSE i \in S : \A j \in S : j <= i

\* mode "similarity": query_embedding is given; mode "default": it is None.
\* The result is <<>> for None and <<entry>> for the dict returned.
DisplayRuns(username, mode, query_embedding) ==
  IF mode = "similarity"
  THEN {Returned("brute_force", rows,
                 ScanBestMatch(DisplayQuery(query_embedding), rows, <<>>, 0 - Scale)) :
          rows \in FetchOrders(DisplayEligible(username))}
  ELSE IF DisplayEligible(username) = {}
  THEN {Returned("newest", <<>>, <<>>)}
  ELSE {Returned("newest", <<>>,
                 <<DisplayEntry(images[NewestOf(DisplayEligible(username))], NULL)>>)}

GetCreatorDisplayImage(username, mode, query_embedding) ==
  /\ \E r \in DisplayRuns(username, mode, query_embedding) :
       last' = [op |-> "get_creator_display_image", username |-> username,
                mode |-> mode, embedding |-> query_embedding, limit |-> NULL,
                strategy |-> r.strategy, scan |-> r.scan,
                result |-> r.result, error |-> r.error]
  /\ UNCHANGED <<images, has_vector, embedding_column, calls>>
  /\ UNCHANGED others

\* The three similarity operations over stores whose rows carry hashtags.
NextDisplay ==
  \/ /\ Len(images) < MaxRows
     /\ \E e \in StoredVectors, h \in HashtagLists :
          InsertImageRow(1, calls + 1, calls + 1, h, e, NULL)
  \/ \E u \in Owners, q \in Queries : GetCreatorDisplayImage(u, "similarity", q)
  \/ \E u \in Owners : GetCreatorDisplayImage(u, "default", <<>>)
  \/ \E q \in Queries, k \in 1..MaxK : SearchSimilarImages(q, k)
  \/ \E q \in Queries : SearchSimilarImagesByCreator(q)

SpecDisplay == Init /\ [][NextDisplay]_vars

\* The read paths over stores of at most MaxRows rows, built by ingesting
\* distinct media (a fresh source_id for every call).
NextSearch ==
  \/ /\ Len(images) < MaxRows
     /\ \E e \in StoredVectors, u \in Owners \cup {NULL} :
          InsertImageRow(1, calls + 1, calls + 1, <<>>, e, u)
  \/ \E q \in Queries, k \in 1..MaxK : SearchSimilarImages(q, k)
  \/ \E q \in Queries : SearchSimilarImagesByCreator(q)
  \/ \E f \in Queries, k \in 1..MaxK : AppSearchByUpload(f, k)

SpecSearch == Init /\ [][NextSearch]_vars

\* The two functions of app/database.py over the stores of one owner.  A
\* read changes nothing but the record of the last call, so the stores and
\* the results reached here are those of SpecSearch for these inputs.
NextEngine ==
  \/ /\ Len(images) < MaxRows
     /\ \E e \in StoredVectors :
          InsertImageRow(1, calls + 1, calls + 1, <<>>, e, 1)
  \/ \E q \in Queries, k \in 1..MaxK : SearchSimilarImages(q, k)
  \/ \E q \in Queries : SearchSimilarImagesByCreator(q)

SpecEngine == Init /\ [][NextEngine]_vars

\* search_similar_images_by_creator alone, over the stores of SpecSearch.
NextByCreator ==
  \/ /\ Len(images) < MaxRows
     /\ \E e \in StoredVectors, u \in Owners \cup {NULL} :
          InsertImageRow(1, calls + 1, calls + 1, <<>>, e, u)
  \/ \E q \in Queries : SearchSimilarImagesByCreator(q)

SpecByCreator == Init /\ [][NextByCreator]_vars

\* CREATE EXTENSION IF NOT EXISTS vector, run by setup_database_schema of
\* another process that starts on the same database (or by an operator)
\* after this process created its table: the extension appears, the images
\* table and its JSONB column stay as they are (CREATE TABLE IF NOT EXISTS).
CreateExtension ==
  /\ ~has_vector
  /\ has_vector' = TRUE
  /\ UNCHANGED <<images, embedding_column, calls, last>>
  /\ UNCHANGED others

\* The searches of one process while the extension may appear.
NextCapability ==
  \/ /\ Len(images) < MaxRows
     /\ \E e \in {<<5, 0>>, <<3, 4>>}, u \in Owners :
          InsertImageRow(1, calls + 1, calls + 1, <<>>, e, u)
  \/ CreateExtension
  \/ \E q \in Queries, k \in 1..MaxK : SearchSimilarImages(q, k)
  \/ \E q \in Queries : SearchSimilarImagesByCreator(q)

SpecCapability == Init /\ [][NextCapability]_vars

\* Queries of any length and limits of any sign: what the callers of
\* search_similar_images can pass (limit is a query parameter, an int).
QueriesOfAnyLength == {<<10, 0>>, <<5>>, <<3, 4, 0>>, <<>>}
Limits == (0 - 1)..MaxK

NextQuery ==
  \/ /\ Len(images) < MaxRows
     /\ \E e \in {<<5, 0>>, <<3, 4>>} :
          InsertImageRow(1, calls + 1, calls + 1, <<>>, e, NULL)
  \/ \E q \in QueriesOfAnyLength, k \in Limits : SearchSimilarImages(q, k)

SpecQuery == Init /\ [][NextQuery]_vars

\* ------------------------------------------------------ write-path claims
SameKey(row, source, source_id) ==
  row.source = source /\ row.source_id = source_id

RowsUnder(table, source, source_id) ==
  {i \in 1..Len(table) : SameKey(table[i], source, source_id)}

IsInsertStep == calls' = calls + 1 /\ last'.op = "insert_image_row"

\* C6: an insert under a natural key (source, source_id) that already holds a
\* record with a different vector leaves exactly one record under that key,
\* and that record holds the vector of this second insert; for both
\* insert_image_row implementations and for a NULL source_id as well.
C6_SecondVectorWins ==
  [][(/\ IsInsertStep
      /\ \E i \in RowsUnder(images, last'.source, last'.source_id) :
            images[i].embedding # last'.new.embedding)
     => (/\ Cardinality(RowsUnder(images', last'.source, last'.source_id)) = 1
         /\ \A j \in RowsUnder(images', last'.source, last'.source_id) :
               images'[j].embedding = last'.new.embedding)]_vars

\* C7: when insert_image_row of image_processing.py hits an existing natural
\* key, the record keeps its id and every other field holds the value of the
\* new call: vector, owner, type tag and all metadata (url, hashtags, width,
\* height, caption, media_id, media_url).
C7_FullRowReplace ==
  [][(/\ IsInsertStep
      /\ last'.impl = "image_processing"
      /\ ConflictIndex(last'.source, last'.source_id) # {})
     => \A i \in ConflictIndex(last'.source, last'.source_id) :
          /\ images'[i].id = images[i].id
          /\ images'[i] = [last'.new EXCEPT !.id = images[i].id]]_vars

UniqueNaturalKey ==
  \A i, j \in 1..Len(images) :
    i # j => ~SameKey(images[i], images[j].source, images[j].source_id)

LastWriterWins ==
  last.op = "insert_image_row" =>
    \A i \in RowsUnder(images, last.source, last.source_id) :
      images[i] = [last.new EXCEPT !.id = images[i].id]

\* C8: at every moment at most one record exists per natural key
\* (source, source_id), and after any sequence of upserts of one key the
\* single row under it has the contents of the upsert that committed last.
\* Every statement commits on its own (autocommit) and INSERT .. ON CONFLICT
\* is one atomic statement, so an interleaving of concurrent upserts is an
\* order of insert steps.
C8_UniqueKeyLastWriterWins == UniqueNaturalKey /\ LastWriterWins

\* ------------------------------------------------------- read-path claims
\* The cosine similarity of two non-zero vectors, in units of 1/Scale.
Cosine(a, b) == (Scale * Dot(a, b)) \div (Norm(a) * Norm(b))

RowById(id) == images[CHOOSE i \in 1..Len(images) : images[i].id = id]

Usable(row) == Norm(row.embedding) # 0
UsableStore == \A i \in 1..Len(images) : Usable(images[i])

IsSearch == last.op = "search_similar_images"
IsCreatorSearch == last.op = "search_similar_images_by_creator"
IsAppSearch == last.op = "app_search_by_upload"

ResultIds(result) == {result[i].id : i \in 1..Len(result)}

Min(a, b) == IF a < b THEN a ELSE b

\* C1: the list search_similar_images returns is ordered by score
\* descending, result[i].score >= result[i+1].score for every valid i, for
\* any store contents, query and k >= 1, on the pgvector path and on the
\* brute-force path.
C1_SearchDescending ==
  IsSearch =>
    \A i \in 1..(Len(last.result) - 1) :
      FloatGE(last.result[i].similarity, last.result[i + 1].similarity)

C3_ScoreIsCosine ==
  (IsSearch \/ IsAppSearch) =>
    \A i \in 1..Len(last.result) :
      Usable(RowById(last.result[i].id)) =>
        /\ last.result[i].similarity =
             Cosine(RowById(last.result[i].id).embedding, last.embedding)
        /\ last.result[i].similarity \in (0 - Scale)..Scale

\* The non-null owners of a record with a vector (embedding is NOT NULL).
OwnersWithVector ==
  {images[i].creator_username : i \in {j \in 1..Len(images) : images[j].creator_username # NULL}}

\* C4: search_similar_images_by_creator returns exactly one entry per
\* distinct non-null owner that has a record with a vector, the entry is a
\* record of that owner with the owner's maximum score, and the entries are
\* ordered by score descending.

C4_BestPerOwner ==
  IsCreatorSearch /\ Norm(last.embedding) # 0 =>
    /\ {last.result[i].creator_username : i \in 1..Len(last.result)} = OwnersWithVector
    /\ Len(last.result) = Cardinality(OwnersWithVector)
    /\ \A i \in 1..Len(last.result) :
         /\ \E j \in 1..Len(images) :
              /\ images[j].id = last.result[i].image.id
              /\ images[j].creator_username = last.result[i].creator_username
         /\ \A j \in 1..Len(images) :
              (images[j].creator_username = last.result[i].creator_username /\ Usable(images[j]))
                => FloatGE(last.result[i].similarity_score,
                           Cosine(images[j].embedding, last.embedding))
    /\ \A i \in 1..(Len(last.result) - 1) :
         FloatGE(last.result[i].similarity_score, last.result[i + 1].similarity_score)

\* C5: a record whose creator_username is NULL never appears in the result
\* of search_similar_images_by_creator, on either path.
C5_NoNullOwner ==
  IsCreatorSearch =>
    \A i \in 1..Len(last.result) :
      /\ last.result[i].creator_username # NULL
      /\ \A j \in 1..Len(images) :
           images[j].creator_username = NULL => images[j].id # last.result[i].image.id

\* A NULL-owner record scores strictly higher than every other record, and
\* the query answered with the owners' records only.
C5_Witness ==
  /\ IsCreatorSearch /\ UsableStore /\ Norm(last.embedding) # 0
  /\ Len(last.result) > 0
  /\ \E j \in 1..Len(images) :
       /\ images[j].creator_username = NULL
       /\ \A i \in 1..Len(images) :
            images[i].creator_username # NULL =>
              Cosine(images[i].embedding, last.embedding)
                < Cosine(images[j].embedding, last.embedding)

\* C9: for the same store and query the DISTINCT ON path and the
\* scan-and-reduce path of search_similar_images_by_creator return the same
\* list: same owners, same record per owner, same order.
C9_CreatorStrategiesAgree ==
  IsCreatorSearch =>
    \A r1 \in CreatorOutcomes(TRUE, last.embedding) :
      \A r2 \in CreatorOutcomes(FALSE, last.embedding) : r1 = r2

Top1(result) == IF result = <<>> THEN NULL ELSE result[1].id

\* C10: for the same store and query the pgvector path and the brute-force
\* path of search_similar_images return the same first record id.

C10_SameTop1 ==
  IsSearch =>
    \A r1 \in SearchOutcomes(TRUE, last.embedding, last.limit) :
      \A r2 \in SearchOutcomes(FALSE, last.embedding, last.limit) :
        Top1(r1) = Top1(r2)

\* ------------------------------------------------ order of tied records
IsBruteForce == last.strategy = "brute_force"
IsNative == last.strategy = "native"

\* The position of a record in the table: records are appended by the
\* insert that creates them and keep their place when they are updated.
PositionOf(id) == CHOOSE i \in 1..Len(images) : images[i].id = id

\* C11: in the brute-force branch of search_similar_images, records with
\* equal score appear in the result in the order they were inserted in, and
\* the result is a function of the store contents and the query: no other
\* list can be returned for them.
C11_TiesInInsertionOrder ==
  (IsSearch /\ IsBruteForce) =>
    /\ \A i, j \in 1..Len(last.result) :
         (i < j /\ last.result[i].similarity = last.result[j].similarity)
           => PositionOf(last.result[i].id) < PositionOf(last.result[j].id)
    /\ \A r \in SearchOutcomes(FALSE, last.embedding, last.limit) : r = last.result

\* The places in the fetch order of the usable records of one owner, and
\* among them the places of the records with the owner's greatest score.
ScannedOf(owner) ==
  {k \in 1..Len(last.scan) :
     /\ images[last.scan[k]].creator_username = owner
     /\ Usable(images[last.scan[k]])}

BestScannedOf(owner) ==
  {k \in ScannedOf(owner) :
     \A m \in ScannedOf(owner) :
       Cosine(images[last.scan[k]].embedding, last.embedding)
         >= Cosine(images[last.scan[m]].embedding, last.embedding)}

\* C12: in the scan-and-reduce branch of search_similar_images_by_creator
\* an owner's best record is replaced only by a strictly greater score, so
\* the record returned for an owner is the first one scanned among the
\* owner's records with the greatest score.
C12_FirstScannedWinsTies ==
  (IsCreatorSearch /\ IsBruteForce) =>
    \A i \in 1..Len(last.result) :
      \A k \in BestScannedOf(last.result[i].creator_username) :
        (\A m \in BestScannedOf(last.result[i].creator_username) : k <= m)
          => last.result[i].image.id = images[last.scan[k]].id

\* An owner has two records that tie for the best score, the one inserted
\* later was scanned first, and it is the one returned.
C12_Witness ==
  /\ IsCreatorSearch /\ IsBruteForce
  /\ \E i \in 1..Len(last.result) :
       \E k, m \in BestScannedOf(last.result[i].creator_username) :
         /\ k < m
         /\ last.scan[k] > last.scan[m]
         /\ last.result[i].image.id = images[last.scan[k]].id

\* The place at which an owner is first met: in the fetch order for the
\* scan-and-reduce branch, in the table (the order of insertion) for the
\* DISTINCT ON branch, which scans nothing itself.
FirstDiscovery(owner) ==
  IF IsBruteForce
  THEN CHOOSE k \in ScannedOf(owner) : \A m \in ScannedOf(owner) : k <= m
  ELSE CHOOSE k \in 1..Len(images) :
         /\ images[k].creator_username = owner
         /\ \A m \in 1..Len(images) : images[m].creator_username = owner => k <= m

\* C13: when two owners have exactly equal best scores,
\* search_similar_images_by_creator lists them in the order in which the
\* owners were first discovered, on the DISTINCT ON branch and on the
\* scan-and-reduce branch.
C13_TiedOwnersInDiscoveryOrder ==
  (IsCreatorSearch /\ (IsBruteForce \/ IsNative) /\ UsableStore) =>
    \A i, j \in 1..Len(last.result) :
      (i < j /\ last.result[i].similarity_score = last.result[j].similarity_score)
        => FirstDiscovery(last.result[i].creator_username)
             < FirstDiscovery(last.result[j].creator_username)

IsDisplay == last.op = "get_creator_display_image" /\ last.mode = "similarity"

\* C15: when the query is the zero vector, search_similar_images,
\* search_similar_images_by_creator and the similarity mode of
\* get_creator_display_image return an empty result and raise nothing.
\* (The claim adds that no record is fetched or scored; a call that returns
\* a record has scored one.)
C15_ZeroQueryEmpty ==
  ((IsSearch \/ IsCreatorSearch \/ IsDisplay) /\ Norm(last.embedding) = 0) =>
    /\ last.result = <<>>
    /\ last.error = "none"

\* C16: search_similar_images rejects a query whose vector does not have
\* exactly Dim (512) components or whose k is below 1: the call ends with an
\* error surfaced to the caller and never with a result list.  Any
\* exception that leaves the function is counted as the rejection.
C16_InvalidQueryRejected ==
  (IsSearch /\ (Len(last.embedding) # Dim \/ last.limit < 1)) =>
    last.error # "none"

IsInsert == last.op = "insert_image_row"

IsUnitVector(v) == Dot(v, v) = Unit * Unit

\* C18: every vector held in the store is unit-normalised, after any
\* sequence of insert_image_row calls with any vector a caller supplies.
C18_StoredUnitVectors ==
  \A i \in 1..Len(images) : IsUnitVector(images[i].embedding)

\* ------------------------------------------------------ strategy and frame
\* The strategy that the capability found at startup selects: the startup
\* capability is the one the embedding column was created for.
StartupStrategy == IF embedding_column = "vector" THEN "native" ELSE "brute_force"

\* C19: the strategy is selected once at startup from the store's
\* capability and every search_similar_images and
\* search_similar_images_by_creator call that picks a strategy uses that
\* one, also after the availability of the vector extension has changed.
C19_StrategyFixedAtStartup ==
  ((IsSearch \/ IsCreatorSearch) /\ last.strategy # "none") =>
    last.strategy = StartupStrategy

\* A step taken by search_similar_images or search_similar_images_by_creator.
IsReadStep ==
  /\ last' # last
  /\ last'.op \in {"search_similar_images", "search_similar_images_by_creator"}

\* The call of this step is the call that came right before it, with no
\* write in between.
RepeatsLastCall ==
  /\ last.op = last'.op
  /\ last.embedding = last'.embedding
  /\ last.limit = last'.limit

StoreUnchanged ==
  /\ images' = images
  /\ has_vector' = has_vector
  /\ embedding_column' = embedding_column

\* C20: search_similar_images and search_similar_images_by_creator are pure
\* reads: a call leaves the records, their fields and the server-side state
\* unchanged, and a call that repeats the call before it, with no write in
\* between, returns the same result.
C20_PureReads ==
  [][IsReadStep =>
       /\ StoreUnchanged
       /\ RepeatsLastCall =>
            (last'.result = last.result /\ last'.error = last.error)]_vars

\* --------------------------------------------- failures inside a query
\* image_display_manager.get_creator_display_image when the store access
\* fails (conn.cursor() or cur.execute raises): the outer handler prints the
\* exception and returns None.  caught names the exception that was handled.
GetCreatorDisplayImageStoreFails(username, mode, query_embedding) ==
  /\ last' = [op |-> "get_creator_display_image", username |-> username,
              mode |-> mode, embedding |-> query_embedding, limit |-> NULL,
              strategy |-> "none", scan |-> <<>>, result |-> <<>>,
              error |-> "none", caught |-> "DatabaseError"]
  /\ UNCHANGED <<images, has_vector, embedding_column, calls>>
  /\ UNCHANGED others

\* The similarity queries over stores that hold whatever insert_image_row
\* stored (a JSONB column takes a list of any length), and the display
\* lookup while the store may fail.
NextFailure ==
  \/ /\ Len(images) < MaxRows
     /\ \E e \in EmbeddingsOfAnyLength, h \in HashtagLists :
          InsertImageRow(1, calls + 1, calls + 1, h, e, NULL)
  \/ \E k \in 1..MaxK : SearchSimilarImages(<<10, 0>>, k)
  \/ SearchSimilarImagesByCreator(<<10, 0>>)
  \/ \E u \in Owners : GetCreatorDisplayImage(u, "similarity", <<10, 0>>)
  \/ \E u \in Owners : GetCreatorDisplayImageStoreFails(u, "similarity", <<10, 0>>)

SpecFailure == Init /\ [][NextFailure]_vars

\* The scanned records whose scoring raised: np.dot of the query with a
\* stored vector of another length raises ValueError.
FailedRows ==
  {k \in 1..Len(last.scan) :
     /\ Norm(images[last.scan[k]].embedding) # 0
     /\ Len(images[last.scan[k]].embedding) # Len(last.embedding)}

IsDisplayCall == last.op = "get_creator_display_image"

StoreAccessFailed == IsDisplayCall /\ "caught" \in DOMAIN last

\* C21: every failure inside a similarity query (a stored vector of the
\* wrong shape, a failing store access) is surfaced to the caller as an
\* error: a call in which a scanned record could not be scored, or in which
\* the store access failed, does not end with a value (a shortened list, an
\* empty list or None).
C21_FailuresSurface ==
  /\ ((IsSearch \/ IsCreatorSearch \/ IsDisplayCall) /\ FailedRows # {}) =>
       last.error # "none"
  /\ StoreAccessFailed => last.error # "none"

\* ------------------------------------------------- app/db.py: connecting
\* What psycopg.connect can do in one attempt: return a connection, or
\* raise.  A failure has the class of the exception and its message.
ConnectFailures ==
  {[kind |-> "OperationalError", message |-> "connection timeout expired"],
   [kind |-> "OperationalError", message |-> "Connection Timeout"],
   [kind |-> "OperationalError", message |-> "Connection refused"],
   [kind |-> "Exception", message |-> "connection timeout expired"]}

\* "timeout" in error_msg.lower(), for the messages above.
ContainsTimeout(message) ==
  message \in {"connection timeout expired", "Connection Timeout"}

\* The failures after which the loop of create_connection goes on to
\* another attempt (unless this was the last one).
Retries_AnyOperationalError(failure) ==
  failure.kind = "OperationalError"

Retries(failure) ==
  failure.kind = "OperationalError" /\ ContainsTimeout(failure.message)

IsLastAttempt(attempt, max_retries) == attempt = max_retries - 1

\* create_connection() without arguments, as LazyConnection calls it.
DefaultMaxRetries == 3

CallEnds(t, attempts, result, error, message) ==
  [op |-> "create_connection", thread |-> t,
   max_retries |-> threads[t].max_retries, attempts |-> attempts,
   result |-> result, error |-> error, message |-> message]

\* A thread enters create_connection(max_retries).
CreateConnection(t, max_retries) ==
  /\ threads[t].pc = "idle"
  /\ threads' = [threads EXCEPT ![t] =
       [pc |-> "connecting", caller |-> "direct", max_retries |-> max_retries,
        attempt |-> 0, failure |-> NoFailure, opened |-> NULL]]
  /\ UNCHANGED <<images, has_vector, embedding_column, calls, last>>
  /\ UNCHANGED <<connection, vector_registered, server_connections, creator_vars, job>>

\* One pass of the for loop: psycopg.connect returns a new connection (the
\* function returns it) ...
ConnectSucceeds(t) ==
  /\ threads[t].pc = "connecting"
  /\ threads[t].attempt < threads[t].max_retries
  /\ Len(server_connections) < MaxConnections
  /\ server_connections' = Append(server_connections, "open")
  /\ threads' = [threads EXCEPT ![t] =
       IF threads[t].caller = "lazy"
       THEN [@ EXCEPT !.pc = "opened", !.attempt = @ + 1,
                      !.opened = Len(server_connections) + 1]
       ELSE IdleThread]
  /\ last' = CallEnds(t, threads[t].attempt + 1, Len(server_connections) + 1, "none", "")
  /\ UNCHANGED <<images, has_vector, embedding_column, calls>>
  /\ UNCHANGED <<connection, vector_registered, creator_vars, job>>

\* ... or raises: after an OperationalError whose message contains
\* "timeout", on an attempt that is not the last, the function sleeps
\* retry_delay seconds and goes round again; any other failure is raised to
\* the caller.
ConnectFails(t, failure) ==
  /\ threads[t].pc = "connecting"
  /\ threads[t].attempt < threads[t].max_retries
  /\ IF Retries(failure) /\ ~IsLastAttempt(threads[t].attempt, threads[t].max_retries)
     THEN /\ threads' = [threads EXCEPT ![t].attempt = @ + 1, ![t].failure = failure]
          /\ UNCHANGED last
     ELSE /\ threads' = [threads EXCEPT ![t] = IdleThread]
          /\ last' = CallEnds(t, threads[t].attempt + 1, NULL, failure.kind, failure.message)
  /\ UNCHANGED <<images, has_vector, embedding_column, calls>>
  /\ UNCHANGED <<connection, vector_registered, server_connections, creator_vars, job>>

\* The statement after the loop, reached when range(max_retries) is empty.
LoopExhausted(t) ==
  /\ threads[t].pc = "connecting"
  /\ threads[t].attempt >= threads[t].max_retries
  /\ threads' = [threads EXCEPT ![t] = IdleThread]
  /\ last' = CallEnds(t, threads[t].attempt, NULL, "Exception",
                      "Failed to create database connection")
  /\ UNCHANGED <<images, has_vector, embedding_column, calls>>
  /\ UNCHANGED <<connection, vector_registered, server_connections, creator_vars, job>>

\* ------------------------------------------- app/db.py: LazyConnection
\* conn.cursor() or any attribute of conn (__getattr__): a thread that
\* finds _connection None enters create_connection(); one that finds a
\* connection uses it.
LazyUse(t) ==
  /\ threads[t].pc = "idle"
  /\ IF connection = NULL
     THEN /\ threads' = [threads EXCEPT ![t] =
               [pc |-> "connecting", caller |-> "lazy",
                max_retries |-> DefaultMaxRetries, attempt |-> 0,
                failure |-> NoFailure, opened |-> NULL]]
          /\ UNCHANGED last
     ELSE /\ last' = [op |-> "use", thread |-> t, connection |-> connection]
          /\ UNCHANGED threads
  /\ UNCHANGED <<images, has_vector, embedding_column, calls>>
  /\ UNCHANGED <<connection, vector_registered, server_connections, creator_vars, job>>

\* self._connection = <the connection create_connection returned>, then
\* _register_vector(): nothing when already registered; otherwise the
\* adapter is registered when the extension is there (an exception of the
\* probe is swallowed).  The thread then uses the connection.
LazyAssign(t) ==
  /\ threads[t].pc = "opened"
  /\ connection' = threads[t].opened
  /\ vector_registered' = (vector_registered \/ has_vector)
  /\ threads' = [threads EXCEPT ![t] = IdleThread]
  /\ last' = [op |-> "use", thread |-> t, connection |-> threads[t].opened]
  /\ UNCHANGED <<images, has_vector, embedding_column, calls>>
  /\ UNCHANGED <<server_connections, creator_vars, job>>

\* conn.close(): closes the connection held, if any, and resets both fields.
LazyClose(t) ==
  /\ threads[t].pc = "idle"
  /\ IF connection # NULL
     THEN /\ server_connections' = [server_connections EXCEPT ![connection] = "closed"]
          /\ connection' = NULL
          /\ vector_registered' = FALSE
     ELSE UNCHANGED <<connection, vector_registered, server_connections>>
  /\ last' = [op |-> "close", thread |-> t]
  /\ UNCHANGED <<images, has_vector, embedding_column, calls>>
  /\ UNCHANGED <<threads, creator_vars, job>>

\* Calls of create_connection with any max_retries, by one thread after
\* another, against a server that may fail in any way on any attempt.
NextConnect ==
  \/ \E n \in 0..MaxRetries : CreateConnection(1, n)
  \/ ConnectSucceeds(1)
  \/ \E f \in ConnectFailures : ConnectFails(1, f)
  \/ LoopExhausted(1)

\* psycopg.connect returns or raises within connect_timeout seconds and
\* time.sleep returns, so a call that is in the loop takes its next step.
SpecConnect ==
  /\ Init /\ [][NextConnect]_vars
  /\ WF_vars(ConnectSucceeds(1) \/ (\E f \in ConnectFailures : ConnectFails(1, f)))
  /\ WF_vars(LoopExhausted(1))

\* The threads of one process using and closing the shared conn.
NextLazy ==
  \/ \E t \in Threads : LazyUse(t)
  \/ \E t \in Threads : ConnectSucceeds(t)
  \/ \E t \in Threads, f \in ConnectFailures : ConnectFails(t, f)
  \/ \E t \in Threads : LazyAssign(t)
  \/ \E t \in Threads : LazyClose(t)

SpecLazy == Init /\ [][NextLazy]_vars

IsCreateConnection == last.op = "create_connection"

\* C22: when the store is unreachable the failure is surfaced to the caller
\* after a single attempt: a call of create_connection that ends with an
\* error has made at most one attempt, and no call in progress is past its
\* first attempt.
C22_SingleAttempt ==
  /\ (IsCreateConnection /\ last.error # "none") => last.attempts <= 1
  /\ \A t \in Threads : threads[t].pc = "connecting" => threads[t].attempt = 0

IsTimeoutError(failure) ==
  failure.kind = "OperationalError" /\ ContainsTimeout(failure.message)

Connecting(t) == threads[t].pc = "connecting"

AnotherAttempt(t) ==
  /\ Connecting(t) /\ threads'[t].pc = "connecting"
  /\ threads'[t].attempt = threads[t].attempt + 1

\* C26: create_connection always terminates, with a connection or by
\* raising.  It makes at most max_retries attempts; it goes on to a further
\* attempt only after an OperationalError whose message contains "timeout";
\* a call that ends with such an error has used all its attempts, so every
\* other failure was raised when it happened.
C26_ConnectTerminates ==
  /\ [](\A t \in Threads : threads[t].attempt <= threads[t].max_retries)
  /\ [](IsCreateConnection =>
          /\ last.attempts <= last.max_retries
          /\ (last.result # NULL) # (last.error # "none")
          /\ (last.error # "none"
                /\ IsTimeoutError([kind |-> last.error, message |-> last.message]))
               => last.attempts = last.max_retries)
  /\ [][\A t \in Threads : AnotherAttempt(t) => IsTimeoutError(threads'[t].failure)]_vars
  /\ \A t \in Threads : Connecting(t) ~> ~Connecting(t)

\* A call that timed out on every one of its three attempts.
C26_Witness ==
  /\ IsCreateConnection
  /\ last.max_retries = 3 /\ last.attempts = 3
  /\ last.error = "OperationalError"

InCreateConnection == {t \in Threads : threads[t].pc \in {"connecting", "opened"}}

OpenConnections ==
  {c \in 1..Len(server_connections) : server_connections[c] = "open"}

\* C27: LazyConnection holds at most one underlying connection per
\* open/close cycle: first uses that overlap lead to a single call of
\* create_connection, at most one connection is open at any time, it is the
\* one conn holds, and no adapter registration is remembered while conn
\* holds no connection.
C27_SingleConnection ==
  /\ Cardinality(InCreateConnection) <= 1
  /\ Cardinality(OpenConnections) <= 1
  /\ (connection = NULL /\ InCreateConnection = {}) => OpenConnections = {}
  /\ connection = NULL => ~vector_registered

\* ------------------------------------------------- the creators table
\* A row of creators, reduced to the columns the modelled code reads or
\* compares.  user_id and username are each UNIQUE.  The table is kept in
\* the order of updated_at: a statement that sets updated_at = now() moves
\* its row to the end.
Users == {1, 2}

CreatorRow(user_id, username, recent_image) ==
  [user_id |-> user_id, username |-> username, recent_image |-> recent_image]

WithoutUser(table, user_id) ==
  SelectSeq(table, LAMBDA c : c.user_id # user_id)

\* INSERT INTO creators .. ON CONFLICT (user_id) DO UPDATE ..: fails when
\* the username belongs to the row of another user.
UsernameTaken(table, user_id, username) ==
  \E i \in 1..Len(table) : table[i].username = username /\ table[i].user_id # user_id

\* database.upsert_creator
UpsertCreator(user_id, username, recent_image) ==
  /\ IF UsernameTaken(creators, user_id, username)
     THEN /\ UNCHANGED creators
          /\ last' = [op |-> "upsert_creator", user_id |-> user_id,
                      username |-> username, error |-> "UniqueViolation"]
     ELSE /\ creators' = Append(WithoutUser(creators, user_id),
                                CreatorRow(user_id, username, recent_image))
          /\ last' = [op |-> "upsert_creator", user_id |-> user_id,
                      username |-> username, error |-> "none"]
  /\ UNCHANGED <<images, has_vector, embedding_column, calls>>
  /\ UNCHANGED <<connection_vars, requests, scheduled, job>>

\* database.get_creators: ORDER BY c.updated_at DESC; the job reads the
\* username of each row.
GetCreators == [i \in 1..Len(creators) |-> Reverse(creators)[i].username]

\* ------------------------------ routers/creators.ingest_instagram_creators
\* Captions.  0 is no caption (None or ""), 1 stands for "Bridal updo", 2
\* for "sunset at the beach".  is_hair_related_caption is False for an empty
\* caption and otherwise True when the lowercased caption contains one of
\* the keywords ("bridal" and "updo" are among them).
Captions == {0, 1, 2}

IsHairRelatedCaption(caption) ==
  IF caption = 0 THEN FALSE ELSE caption \in {1}

\* An image of the list ig_expand_media_to_images returns: a media item of
\* the Graph API answer.  media_url is NULL when the answer has no
\* media_url for the item (an IMAGE item is appended without looking at
\* it); readable says whether the URL can be fetched and decoded.
MediaItem(id, media_url, caption, readable) ==
  [id |-> id, media_type |-> 1, media_url |-> media_url, permalink |-> id,
   caption |-> caption, readable |-> readable]

MediaId(uname, k) == 10 * uname + k

\* The kinds of item: a hair image, one that cannot be downloaded, one with
\* another caption, one without caption, one without media_url.
ItemKinds ==
  {[media_url |-> 1, caption |-> 1, readable |-> TRUE],
   [media_url |-> 1, caption |-> 1, readable |-> FALSE],
   [media_url |-> 1, caption |-> 2, readable |-> TRUE],
   [media_url |-> 1, caption |-> 0, readable |-> TRUE],
   [media_url |-> NULL, caption |-> 1, readable |-> TRUE]}

MaxBatch == 2

Batches(uname, kinds) ==
  UNION {{[k \in 1..n |-> MediaItem(MediaId(uname, k), f[k].media_url,
                                     f[k].caption, f[k].readable)] :
            f \in [1..n -> kinds]} : n \in 0..MaxBatch}

\* The statement of insert_image_row on a table.
InsertInto(table, new) ==
  LET hit == {i \in 1..Len(table) : Conflicts(table[i], new.source, new.source_id)}
  IN IF hit = {} THEN Append(table, new)
     ELSE [i \in 1..Len(table) |->
             IF i \in hit THEN DoUpdate(table[i], new) ELSE table[i]]

\* The embedding embed_image_from_url computes: image_to_embedding, a unit
\* vector of Dim components.
EmbeddingOf(im) == <<3, 4>>

\* The loop over the images of one creator.  acc holds the table, the ids
\* used, the counters and the errors list.  im["media_url"] is read before
\* the inner try: a missing key raises KeyError into the handler of the
\* outer try, which records one error and leaves the loop.
RECURSIVE IngestImages(_, _, _)
IngestImages(uname, items, acc) ==
  IF items = <<>> THEN acc
  ELSE LET im == Head(items)
           new == Row(acc.calls + 1, 1, im.id, im.permalink, <<AtTag(uname)>>, 1, 1,
                      EmbeddingOf(im), im.caption, im.id, uname, im.media_type,
                      im.media_url)
       IN IF im.media_url = NULL
          THEN [acc EXCEPT !.errors = Append(@, "Failed to ingest")]
          ELSE IF ~IsHairRelatedCaption(im.caption)
          THEN IngestImages(uname, Tail(items), [acc EXCEPT !.skipped = @ + 1])
          ELSE IF ~im.readable
          THEN IngestImages(uname, Tail(items),
                            [acc EXCEPT !.skipped = @ + 1,
                                        !.errors = Append(@, "Failed to process image")])
          ELSE IngestImages(uname, Tail(items),
                            [acc EXCEPT !.images = InsertInto(@, new),
                                        !.calls = @ + 1,
                                        !.inserted = @ + 1,
                                        !.added = @ + 1])

\* ingest_instagram_creators([uname], limit): fetched is FALSE when
\* ig_get_recent_media_by_creator raises.  inserted counts the calls of
\* insert_image_row that returned.
IngestResult(uname, fetched, items) ==
  LET start == [images |-> images, calls |-> calls, inserted |-> 0,
                added |-> 0, skipped |-> 0, errors |-> <<>>]
  IN IF fetched THEN IngestImages(uname, items, start)
     ELSE [start EXCEPT !.errors = <<"Failed to ingest">>]

IngestInstagramCreators(uname, fetched, items) ==
  /\ LET r == IngestResult(uname, fetched, items)
     IN /\ images' = r.images
        /\ calls' = r.calls
        /\ last' = [op |-> "ingest_instagram_creators", uname |-> uname,
                    fetched |-> fetched, items |-> items, inserted |-> r.inserted,
                    added |-> r.added, skipped |-> r.skipped, errors |-> r.errors]
  /\ UNCHANGED <<has_vector, embedding_column>>
  /\ UNCHANGED others

\* The background ingestion of creators, run again and again on whatever a
\* creator's media are at that time.
NextIngestCreators ==
  \/ /\ calls < MaxCalls
     /\ \E u \in Owners : \E items \in Batches(u, ItemKinds) :
          IngestInstagramCreators(u, TRUE, items)
  \/ /\ calls < MaxCalls
     /\ \E u \in Owners : IngestInstagramCreators(u, FALSE, <<>>)

SpecIngestCreators == Init /\ [][NextIngestCreators]_vars

IsIngest == last.op = "ingest_instagram_creators"

\* C28: in ingest_instagram_creators every expanded image of a creator
\* whose media fetch succeeded is counted exactly once, as added or as
\* skipped: added + skipped is the number of images, added is the number of
\* insert_image_row calls that returned, and no stored image has a caption
\* that is not hair-related.
C28_EveryImageCounted ==
  /\ (IsIngest /\ last.fetched) =>
       /\ last.added + last.skipped = Len(last.items)
       /\ last.added = last.inserted
  /\ \A i \in 1..Len(images) : IsHairRelatedCaption(images[i].caption)

\* ------------------------------------- scripts/refresh_creator_images.py
\* DELETE FROM images WHERE creator_username = %s: the rows that stay (a
\* NULL creator_username never equals the parameter) and cur.rowcount.
RowsAfterDelete_OwnedOnly(table, username) ==
  SelectSeq(table, LAMBDA r : r.creator_username # username /\ r.creator_username # NULL)

RowsAfterDelete(table, username) ==
  SelectSeq(table, LAMBDA r : r.creator_username # username)

DeletedCount(table, username) ==
  Len(table) - Len(RowsAfterDelete(table, username))

\* if not dry_run: the guard of every statement of the job that writes.
MakesChanges_Always(dry_run) == TRUE

MakesChanges(dry_run) == ~dry_run

\* The end of one pass of the loop over the creators, and the summary after
\* the last.
NextCreator(j) ==
  IF j.i + 1 > Len(j.creators)
  THEN [j EXCEPT !.pc = "done", !.i = @ + 1]
  ELSE [j EXCEPT !.pc = "delete", !.i = @ + 1]

Username == job.creators[job.i]

\* refresh_all_creators_images(limit, dry_run) up to the loop: get_creators
\* raising, or no creators, ends the job.
StartRefresh(dry_run, reachable) ==
  /\ job.pc = "idle"
  /\ job' = IF ~reachable \/ creators = <<>>
            THEN [IdleJob EXCEPT !.pc = "done", !.dry_run = dry_run]
            ELSE [IdleJob EXCEPT !.pc = "delete", !.dry_run = dry_run,
                                 !.creators = GetCreators, !.i = 1]
  /\ UNCHANGED <<images, has_vector, embedding_column, calls, last>>
  /\ UNCHANGED <<connection_vars, creator_vars>>

\* The first block of the try: delete_creator_images(username), or the
\* count of the dry run.  store_ok is FALSE when the statement raises: the
\* handler of the try appends the creator to failed_creators and the loop
\* goes on.  A creator without username is skipped.
RefreshDelete(store_ok) ==
  /\ job.pc = "delete"
  /\ IF Username = NULL
     THEN /\ job' = NextCreator(job)
          /\ UNCHANGED <<images, last>>
     ELSE IF ~store_ok
     THEN /\ job' = NextCreator([job EXCEPT !.failed_creators = Append(@, Username)])
          /\ last' = [op |-> "delete_creator_images", username |-> Username,
                      result |-> NULL, error |-> "DatabaseError"]
          /\ UNCHANGED images
     ELSE IF MakesChanges(job.dry_run)
     THEN /\ images' = RowsAfterDelete(images, Username)
          /\ job' = [job EXCEPT !.pc = "ingest",
                                !.total_deleted = @ + DeletedCount(images, Username)]
          /\ last' = [op |-> "delete_creator_images", username |-> Username,
                      result |-> DeletedCount(images, Username), error |-> "none"]
     ELSE /\ job' = [job EXCEPT !.pc = "ingest"]
          /\ last' = [op |-> "count_creator_images", username |-> Username,
                      result |-> DeletedCount(images, Username), error |-> "none"]
          /\ UNCHANGED images
  /\ UNCHANGED <<has_vector, embedding_column, calls>>
  /\ UNCHANGED <<connection_vars, creator_vars>>

\* The second block: ingest_instagram_creators([username], limit), which
\* returns its errors and raises nothing; the dry run prints a line.
RefreshIngest(fetched, items) ==
  /\ job.pc = "ingest"
  /\ IF MakesChanges(job.dry_run)
     THEN LET r == IngestResult(Username, fetched, items)
          IN /\ images' = r.images
             /\ calls' = r.calls
             /\ job' = [job EXCEPT !.pc = "recent",
                                   !.total_added = @ + r.added,
                                   !.total_skipped = @ + r.skipped,
                                   !.total_errors = @ + Len(r.errors)]
             /\ last' = [op |-> "ingest_instagram_creators", uname |-> Username,
                         fetched |-> fetched, items |-> items, inserted |-> r.inserted,
                         added |-> r.added, skipped |-> r.skipped, errors |-> r.errors]
     ELSE /\ job' = NextCreator(job)
          /\ UNCHANGED <<images, calls, last>>
  /\ UNCHANGED <<has_vector, embedding_column>>
  /\ UNCHANGED <<connection_vars, creator_vars>>

\* UPDATE creators SET recent_image = %s, updated_at = now() WHERE user_id =
\* (the user_id of the row with this username).
WithRecentImage(table, username, recent_image) ==
  SelectSeq(table, LAMBDA c : c.username # username)
    \o [i \in 1..Len(SelectSeq(table, LAMBDA c : c.username = username)) |->
          [SelectSeq(table, LAMBDA c : c.username = username)[i]
             EXCEPT !.recent_image = recent_image]]

\* The third block: recent_image is the media_url ig_get_most_recent_image
\* returned, NULL when it returned None or raised (that exception is
\* printed and dropped).
RefreshRecent(recent_image) ==
  /\ job.pc = "recent"
  /\ creators' = IF MakesChanges(job.dry_run) /\ recent_image # NULL
                 THEN WithRecentImage(creators, Username, recent_image)
                 ELSE creators
  /\ job' = NextCreator(job)
  /\ UNCHANGED <<images, has_vector, embedding_column, calls, last>>
  /\ UNCHANGED <<connection_vars, requests, scheduled>>

\* The media the job finds: hair images and images with another caption.
RefreshKinds ==
  {[media_url |-> 1, caption |-> 1, readable |-> TRUE],
   [media_url |-> 1, caption |-> 2, readable |-> TRUE]}

\* One run of the job, real or dry, over a database that creators signed up
\* to and images were ingested into before the job started.
NextRefresh ==
  \/ /\ job.pc = "idle"
     /\ \E u \in Users : UpsertCreator(u, u, NULL)
  \/ /\ job.pc = "idle" /\ calls < MaxCalls /\ Len(images) < MaxRows
     /\ \E u \in Owners \cup {NULL} :
          InsertImageRow(1, calls + 1, 1, <<>>, <<3, 4>>, u)
  \/ \E d, reachable \in BOOLEAN : StartRefresh(d, reachable)
  \/ \E store_ok \in BOOLEAN : RefreshDelete(store_ok)
  \/ /\ job.pc = "ingest"
     /\ \E items \in Batches(Username, RefreshKinds) : RefreshIngest(TRUE, items)
  \/ RefreshIngest(FALSE, <<>>)
  \/ \E recent_image \in {NULL, 1} : RefreshRecent(recent_image)

SpecRefresh == Init /\ [][NextRefresh]_vars

OwnedBy(table, username) ==
  {i \in 1..Len(table) : table[i].creator_username = username}

IsPurgeStep == job.pc = "delete" /\ job'.pc = "ingest" /\ ~job.dry_run

IsReingestStep == job.pc = "ingest" /\ job'.pc = "recent" /\ ~job.dry_run

\* C23: delete_creator_images(u) removes every record whose owner is u,
\* returns the number of records removed and leaves the records of every
\* other owner and those without owner as they are, in their order; in the
\* refresh job the purge of u comes before the fresh batch of u is
\* upserted: when the batch is ingested no record of u is in the table, and
\* the records of u after it are those the batch wrote.
C23_PurgeBeforeReingest ==
  [][/\ IsPurgeStep =>
          /\ images' = SelectSeq(images, LAMBDA r : r.creator_username # job.creators[job.i])
          /\ OwnedBy(images', job.creators[job.i]) = {}
          /\ last'.op = "delete_creator_images"
          /\ last'.result = Cardinality(OwnedBy(images, job.creators[job.i]))
     /\ IsReingestStep =>
          /\ OwnedBy(images, job.creators[job.i]) = {}
          /\ Cardinality(OwnedBy(images', job.creators[job.i])) = last'.added]_vars

\* The job removed a creator's records, kept a record without owner and
\* ingested a fresh batch for the creator.
C23_Witness ==
  /\ job.pc = "recent" /\ ~job.dry_run
  /\ job.total_deleted >= 1
  /\ last.op = "ingest_instagram_creators" /\ last.added >= 1
  /\ \E i \in 1..Len(images) : images[i].creator_username = NULL

\* C24: refresh_all_creators_images with dry_run=True changes neither the
\* images table nor the creators table: no step of a dry run changes them.
C24_DryRunChangesNothing ==
  [][(job' # job /\ job'.dry_run) => (images' = images /\ creators' = creators)]_vars

\* A dry run that went through a creator who has images.
C24_Witness ==
  /\ job.pc = "done" /\ job.dry_run
  /\ \E k \in 1..Len(job.creators) : OwnedBy(images, job.creators[k]) # {}

FinishesCreator == job.pc \in {"delete", "ingest", "recent"} /\ job'.i = job.i + 1

InFailedCreators(j, username) ==
  \E k \in 1..Len(j.failed_creators) : j.failed_creators[k] = username

\* C29: refresh_all_creators_images attempts every creator once; a failure
\* for one creator (its delete raising, its ingestion returning errors)
\* records the creator in failed_creators and the job goes on to the next;
\* a record is deleted only while its own creator is processed.
C29_FailuresRecorded ==
  /\ [](job.pc = "done" => job.i >= Len(job.creators))
  /\ [][(FinishesCreator /\ job.pc = "recent" /\ last.errors # <<>>) =>
          InFailedCreators(job', job.creators[job.i])]_vars
  /\ [][(FinishesCreator /\ job.pc = "delete" /\ job.creators[job.i] # NULL) =>
          InFailedCreators(job', job.creators[job.i])]_vars
  /\ [][\A i \in 1..Len(images) :
          (\A k \in 1..Len(images') : images'[k].id # images[i].id) =>
            (job.pc = "delete" /\ images[i].creator_username = job.creators[job.i])]_vars

\* ------------------------------ routers/creators.py: PUT /api/creators/me
HasProfile(table, user_id) ==
  \E i \in 1..Len(table) : table[i].user_id = user_id

\* upsert_my_creator up to and including
\* existing_creator = get_creator_by_user_id(current_user["id"]): the
\* request has a username, the Instagram profile was fetched and is
\* hair-related (a request that fails one of these answers 400 and touches
\* nothing).
PutCheck(r, user_id, username) ==
  /\ requests[r].pc = "idle"
  /\ requests' = [requests EXCEPT ![r] =
       [pc |-> "checked", user_id |-> user_id, username |-> username,
        is_new_creator |-> ~HasProfile(creators, user_id)]]
  /\ UNCHANGED <<images, has_vector, embedding_column, calls, last>>
  /\ UNCHANGED <<connection_vars, creators, scheduled, job>>

\* The rest of upsert_my_creator: upsert_creator(..), then
\* background_tasks.add_task(ingest_instagram_creators, [username], ..) when
\* is_new_creator.  An exception of the upsert ends the request before that.
\* The recent image the request fetched is not followed: NULL stands for it.
PutUpsert(r) ==
  /\ requests[r].pc = "checked"
  /\ LET q == requests[r]
         failed == UsernameTaken(creators, q.user_id, q.username)
     IN /\ creators' = IF failed THEN creators
                       ELSE Append(WithoutUser(creators, q.user_id),
                                   CreatorRow(q.user_id, q.username, NULL))
        /\ scheduled' = IF ~failed /\ q.is_new_creator
                        THEN Append(scheduled, [user_id |-> q.user_id, username |-> q.username])
                        ELSE scheduled
        /\ last' = [op |-> "upsert_my_creator", user_id |-> q.user_id,
                    username |-> q.username, is_new_creator |-> q.is_new_creator,
                    error |-> IF failed THEN "UniqueViolation" ELSE "none"]
  /\ requests' = [requests EXCEPT ![r] = IdleRequest]
  /\ UNCHANGED <<images, has_vector, embedding_column, calls>>
  /\ UNCHANGED <<connection_vars, job>>

\* Requests of the users, served by worker threads side by side.
NextSignup ==
  \/ \E r \in Requests, u \in Users, name \in Owners : PutCheck(r, u, name)
  \/ \E r \in Requests : PutUpsert(r)

SpecSignup == Init /\ [][NextSignup]_vars

ScheduledFor(user_id) ==
  {k \in 1..Len(scheduled) : scheduled[k].user_id = user_id}

\* C25: PUT /api/creators/me triggers the image ingestion only in the call
\* that creates the user's profile: whatever the sequence or interleaving
\* of a user's calls, ingestion is scheduled for the user at most once.
C25_IngestionOncePerUser ==
  \A u \in Users : Cardinality(ScheduledFor(u)) <= 1

\* ------------------------------------------------- routers/display.py
\* What the body of a handler's try does: returns (raised is NULL) or
\* raises HTTPException(raised).
Responds == [raised |-> NULL]
RaisesHTTP(status) == [raised |-> status]

\* except Exception as e: raise HTTPException(500, ..) around the whole
\* body.  HTTPException is a subclass of Exception, so the handler catches
\* the HTTPExceptions the body raises as well.
StatusAfterHandler(outcome) ==
  IF outcome.raised = NULL THEN 200 ELSE 500

\* The body of get_creator_card_image for what get_creator_display_image
\* returned (<<>> is None).
CardImageBody(mode, image_data) ==
  IF mode # "default" THEN RaisesHTTP(400)
  ELSE IF image_data = <<>> THEN RaisesHTTP(404)
  ELSE Responds

\* The body of get_creator_similar_image for an upload of the given
\* content type.
SimilarImageBody(is_image, image_data) ==
  IF ~is_image THEN RaisesHTTP(400)
  ELSE IF image_data = <<>> THEN RaisesHTTP(404)
  ELSE Responds

\* GET /api/display/creator/{username}/image?mode=..
GetCreatorCardImage(username, mode) ==
  /\ \E r \in DisplayRuns(username, "default", <<>>) :
       LET image_data == IF mode = "default" THEN r.result ELSE <<>>
           body == CardImageBody(mode, image_data)
       IN last' = [op |-> "get_creator_card_image", username |-> username,
                   mode |-> mode, image |-> image_data, raised |-> body.raised,
                   status |-> StatusAfterHandler(body)]
  /\ UNCHANGED <<images, has_vector, embedding_column, calls>>
  /\ UNCHANGED others

\* POST /api/display/creator/{username}/similar-image with an upload whose
\* embedding is query_embedding.
GetCreatorSimilarImage(username, is_image, query_embedding) ==
  /\ \E r \in DisplayRuns(username, "similarity", query_embedding) :
       LET image_data == IF is_image THEN r.result ELSE <<>>
           body == SimilarImageBody(is_image, image_data)
       IN last' = [op |-> "get_creator_similar_image", username |-> username,
                   is_image |-> is_image, image |-> image_data,
                   raised |-> body.raised, status |-> StatusAfterHandler(body)]
  /\ UNCHANGED <<images, has_vector, embedding_column, calls>>
  /\ UNCHANGED others

\* The two endpoints over the stores of SpecDisplay.
NextDisplayApi ==
  \/ /\ Len(images) < MaxRows
     /\ \E e \in StoredVectors, h \in HashtagLists :
          InsertImageRow(1, calls + 1, calls + 1, h, e, NULL)
  \/ \E u \in Owners, mode \in {"default", "similarity"} : GetCreatorCardImage(u, mode)
  \/ \E u \in Owners, is_image \in BOOLEAN, q \in {<<5, 0>>, <<3, 4>>} :
       GetCreatorSimilarImage(u, is_image, q)

SpecDisplayApi == Init /\ [][NextDisplayApi]_vars

IsCardImage == last.op = "get_creator_card_image"
IsSimilarImage == last.op = "get_creator_similar_image"

\* C30: the display endpoints answer with the error status they raise: 404
\* when the creator has no images, 400 from the image endpoint when mode is
\* not "default", and 500 only when nothing of the kind was raised.
C30_StatusAsRaised ==
  /\ (IsCardImage /\ last.mode # "default") => last.status = 400
  /\ (IsCardImage /\ last.mode = "default" /\ DisplayEligible(last.username) = {}) =>
       last.status = 404
  /\ (IsSimilarImage /\ last.is_image /\ DisplayEligible(last.username) = {}) =>
       last.status = 404
  /\ ((IsCardImage \/ IsSimilarImage) /\ last.status = 500) => last.raised = NULL

====
